---- MODULE Spec2Model ----
(***************************************************************************)
(* Model of oldVersions/secondBackup/fix_loop_carried_dep.py: the Rewriter *)
(* (fix_loop_carried_dep: read the file as text, seven re.sub calls in     *)
(* order, write the text back) and the driver loop over sys.argv[1:].      *)
(*                                                                         *)
(* A text is a sequence of one-character strings.  The regular             *)
(* expressions are modelled at character level: \s, \b, literal runs,      *)
(* greedy .* up to the end of the line, re.IGNORECASE as case folding of   *)
(* every literal of the expression, and re.sub as the left-to-right scan   *)
(* for non-overlapping matches.                                            *)
(***************************************************************************)
EXTENDS Integers, Sequences, FiniteSets

\* ------------------------------------------------------------ bounds

\* number of fragments an input text is concatenated from
MaxFrags == 3

\* number of command-line arguments of the driver
MaxArgs == 2

\* ------------------------------------------------------------ characters

Upper ==
  <<"A","B","C","D","E","F","G","H","I","J","K","L","M","N","O","P","Q","R","S","T","U","V","W","X","Y","Z">>

Lower ==
  <<"a","b","c","d","e","f","g","h","i","j","k","l","m","n","o","p","q","r","s","t","u","v","w","x","y","z">>

Digits ==
  <<"0","1","2","3","4","5","6","7","8","9">>

Range(f) == {f[x] : x \in DOMAIN f}

\* \w of a str pattern, on the ASCII characters of the model
WordChars == Range(Upper) \cup Range(Lower) \cup Range(Digits) \cup {"_"}

\* \s of a str pattern, on the ASCII characters of the model
SpaceChars == {" ", "\t", "\n", "\r", "\f"}

IsWord(c) == c \in WordChars

IsSpace(c) == c \in SpaceChars

\* the lower-case letter of each upper-case letter
ToLower == [c \in Range(Upper) |-> Lower[CHOOSE k \in DOMAIN Upper : Upper[k] = c]]

\* re.IGNORECASE compares characters after case folding
Fold(c) == IF c \in DOMAIN ToLower THEN ToLower[c] ELSE c

Min(S) == CHOOSE x \in S : \A y \in S : x <= y

Max(S) == CHOOSE x \in S : \A y \in S : y <= x

\* ------------------------------------------------------------ literals of the source

\* the identifier every expression looks for
IDENT ==
  <<"L","O","O","P","_","C","A","R","R","I","E","D","_","D","E","P">>

PATTERN_IDENT ==
  <<"P","A","T","T","E","R","N","_","L","O","O","P","_","C","A","R","R","I","E","D","_","D","E","P">>

ANTIPATTERN_IDENT ==
  <<"A","N","T","I","P","A","T","T","E","R","N","_","L","O","O","P","_","C","A","R","R","I","E","D","_","D","E","P">>

W_pattern ==
  <<"p","a","t","t","e","r","n">>

W_type ==
  <<"t","y","p","e">>

W_detected_type ==
  <<"d","e","t","e","c","t","e","d","_","t","y","p","e">>

W_case ==
  <<"c","a","s","e">>

W_access_pattern ==
  <<"a","c","c","e","s","s","_","p","a","t","t","e","r","n">>

W_antipattern ==
  <<"a","n","t","i","p","a","t","t","e","r","n">>

OP_EQEQ ==
  <<"=","=">>

OP_EQ ==
  <<"=">>

\* ------------------------------------------------------------ regular-expression pieces

\* a literal run of the expression matches s at position i
\* (ic: the expression is compiled with re.IGNORECASE)
Lit(s, i, lit, ic) ==
  /\ i >= 1
  /\ i + Len(lit) - 1 <= Len(s)
  /\ IF ic
       THEN \A k \in 1..Len(lit) : Fold(s[i + k - 1]) = Fold(lit[k])
       ELSE s[i] = lit[1] /\ SubSeq(s, i, i + Len(lit) - 1) = lit

\* greedy \s* from position i: the position of the first non-space character
RECURSIVE SkipWs(_, _)
SkipWs(s, i) ==
  IF i <= Len(s) /\ IsSpace(s[i]) THEN SkipWs(s, i + 1) ELSE i

\* \b between positions i-1 and i
WordBoundary(s, i) ==
  LET before == i > 1 /\ i - 1 <= Len(s) /\ IsWord(s[i - 1])
      after  == i >= 1 /\ i <= Len(s) /\ IsWord(s[i])
  IN  before # after

\* '.' does not match "\n": the position of the first "\n" at or after i,
\* Len(s) + 1 when there is none
LineEnd(s, i) ==
  LET nl == {k \in i..Len(s) : s[k] = "\n"}
  IN  IF nl = {} THEN Len(s) + 1 ELSE Min(nl)

NoMatch == [ok |-> FALSE, id |-> 0, end |-> 0]

\* (\bword\s*op\s*)LOOP_CARRIED_DEP\b   (lead: the expression starts with \b)
\* a match at i: id is where the identifier starts, end is one past the match
MatchAssign(s, i, word, lead, op) ==
  LET j == SkipWs(s, i + Len(word))
      k == SkipWs(s, j + Len(op))
  IN  IF /\ Lit(s, i, word, FALSE)
         /\ lead => WordBoundary(s, i)
         /\ Lit(s, j, op, FALSE)
         /\ Lit(s, k, IDENT, FALSE)
         /\ WordBoundary(s, k + Len(IDENT))
        THEN [ok |-> TRUE, id |-> k, end |-> k + Len(IDENT)]
        ELSE NoMatch

\* (case\s+)LOOP_CARRIED_DEP(\s*:.*ctx)  with flags=re.IGNORECASE
\* .* is greedy: the match ends with the last ctx on the line of the colon
MatchCase(s, i, ctx) ==
  LET j == SkipWs(s, i + Len(W_case))
      c == SkipWs(s, j + Len(IDENT))
      P == {p \in (c + 1)..(LineEnd(s, c + 1) - Len(ctx)) : Lit(s, p, ctx, TRUE)}
  IN  IF /\ Lit(s, i, W_case, TRUE)
         /\ j > i + Len(W_case)
         /\ Lit(s, j, IDENT, TRUE)
         /\ c <= Len(s)
         /\ s[c] = ":"
         /\ P # {}
        THEN [ok |-> TRUE, id |-> j, end |-> Max(P) + Len(ctx)]
        ELSE NoMatch

\* the first expression written with a single '='
Rule1SingleEq == [kind |-> "assign", word |-> W_pattern, lead |-> TRUE, op |-> OP_EQ,
                  repl |-> PATTERN_IDENT]

\* the last expression written like the two before it, with \btype
Rule7Bounded == [kind |-> "assign", word |-> W_type, lead |-> TRUE, op |-> OP_EQ,
                 repl |-> ANTIPATTERN_IDENT]

\* the seven expressions and their replacement templates, in source order
Rule1 == [kind |-> "assign", word |-> W_pattern, lead |-> TRUE, op |-> OP_EQEQ,
          repl |-> PATTERN_IDENT]

Rule2 == [kind |-> "assign", word |-> W_pattern, lead |-> TRUE, op |-> OP_EQ,
          repl |-> PATTERN_IDENT]

Rule3 == [kind |-> "case", ctx |-> W_access_pattern, repl |-> PATTERN_IDENT]

Rule4 == [kind |-> "assign", word |-> W_type, lead |-> TRUE, op |-> OP_EQEQ,
          repl |-> ANTIPATTERN_IDENT]

Rule5 == [kind |-> "assign", word |-> W_type, lead |-> TRUE, op |-> OP_EQ,
          repl |-> ANTIPATTERN_IDENT]

Rule6 == [kind |-> "case", ctx |-> W_antipattern, repl |-> ANTIPATTERN_IDENT]

Rule7 == [kind |-> "assign", word |-> W_detected_type, lead |-> FALSE, op |-> OP_EQ,
          repl |-> ANTIPATTERN_IDENT]

MatchAt(rule, s, i) ==
  IF rule.kind = "assign"
    THEN MatchAssign(s, i, rule.word, rule.lead, rule.op)
    ELSE MatchCase(s, i, rule.ctx)

\* re.sub(expr, template, s) from position pos on: the leftmost match is
\* replaced by group 1, the template's identifier and group 2, and the scan
\* goes on after the match
RECURSIVE SubFrom(_, _, _)
SubFrom(rule, s, pos) ==
  LET starts == {i \in pos..Len(s) : MatchAt(rule, s, i).ok}
  IN  IF starts = {}
        THEN SubSeq(s, pos, Len(s))
        ELSE LET m == MatchAt(rule, s, Min(starts))
             IN  SubSeq(s, pos, m.id - 1) \o rule.repl
                   \o SubSeq(s, m.id + Len(IDENT), m.end - 1)
                   \o SubFrom(rule, s, m.end)

re_sub(rule, s) == SubFrom(rule, s, 1)

\* the antipattern block placed before the access_pattern block
RuleOrderAntiFirst == <<Rule4, Rule5, Rule6, Rule1, Rule2, Rule3, Rule7>>

\* the rules in the order the function applies them
RuleOrder == <<Rule1, Rule2, Rule3, Rule4, Rule5, Rule6, Rule7>>

RECURSIVE ApplyRules(_, _)
ApplyRules(s, n) ==
  IF n = 0 THEN s ELSE re_sub(RuleOrder[n], ApplyRules(s, n - 1))

\* the seven substitutions of one call
Substitute(s) == ApplyRules(s, Len(RuleOrder))

\* f.read() of a file opened with open(filename, 'r'): universal newlines,
\* "\r\n" and "\r" are read as "\n"
ReadText(b) ==
  LET Dropped == ""
      Kept(c) == c # Dropped
      \* the "\n" of a "\r\n" is dropped, every "\r" becomes "\n"
      t == [i \in 1..Len(b) |->
              IF b[i] = "\r" THEN "\n"
              ELSE IF b[i] = "\n" /\ i > 1 /\ b[i - 1] = "\r" THEN Dropped
              ELSE b[i]]
  IN  SelectSeq(t, Kept)

\* f.write(content) of a file opened with open(filename, 'w') on a POSIX
\* system: "\n" is written as os.linesep, which is "\n"
WriteText(s) == s

\* the file content one complete call leaves, given the content it finds
fix_result(b) == WriteText(Substitute(ReadText(b)))

\* ------------------------------------------------------------ inputs

\* pieces the input texts are concatenated from: the contexts the seven
\* expressions look for, and what may stand directly before or after them
FragCase ==
  <<"c","a","s","e"," ","L","O","O","P","_","C","A","R","R","I","E","D","_","D","E","P",":">>

FragCaseLower ==
  <<"c","a","s","e"," ","l","o","o","p","_","c","a","r","r","i","e","d","_","d","e","p",":">>

FragAccess ==
  <<" ","a","c","c","e","s","s","_","p","a","t","t","e","r","n">>

FragAccessUpper ==
  <<" ","A","C","C","E","S","S","_","P","A","T","T","E","R","N">>

FragAnti ==
  <<" ","a","n","t","i","p","a","t","t","e","r","n">>

FragPatEq ==
  <<"p","a","t","t","e","r","n"," ","=","="," ","L","O","O","P","_","C","A","R","R","I","E","D","_","D","E","P">>

FragPatAsg ==
  <<"p","a","t","t","e","r","n"," ","="," ","L","O","O","P","_","C","A","R","R","I","E","D","_","D","E","P">>

FragTypeEq ==
  <<"t","y","p","e"," ","=","="," ","L","O","O","P","_","C","A","R","R","I","E","D","_","D","E","P">>

FragTypeAsg ==
  <<"t","y","p","e"," ","="," ","L","O","O","P","_","C","A","R","R","I","E","D","_","D","E","P">>

FragDetected ==
  <<"d","e","t","e","c","t","e","d","_">>

FragWordPrefix ==
  <<"a","n","t","i">>

FragWordSuffix ==
  <<"T","H">>

FragNL ==
  <<"\n">>

FragCR ==
  <<"\r">>

Fragments ==
  {FragCase, FragCaseLower, FragAccess, FragAnti, FragPatEq, FragTypeEq,
   FragTypeAsg, FragDetected, FragWordPrefix, FragWordSuffix, FragNL, FragCR}

RECURSIVE Concat(_)
Concat(fs) == IF fs = <<>> THEN <<>> ELSE Head(fs) \o Concat(Tail(fs))

InputTexts ==
  {Concat(fs) : fs \in UNION {[1..n -> Fragments] : n \in 0..MaxFrags}}

\* file contents of the driver runs
DriverTexts ==
  {<<>>,
   FragPatEq,
   FragCase \o FragAccess \o FragNL \o FragTypeAsg,
   FragCase \o FragCR \o FragNL \o FragCaseLower \o FragAnti,
   FragPatAsg \o FragNL \o FragCase \o FragAccessUpper}

Paths == {"a.c", "b.c"}

\* ------------------------------------------------------------ state

VARIABLES
  args,     \* sys.argv[1:]
  fs,       \* the file system: for each path, whether it exists, may be opened
            \* for reading and for writing, and its content
  idx,      \* position of the driver's loop in args (filename = args[idx])
  pc,       \* position of the program
  content,  \* the local variable content of fix_loop_carried_dep
  fs0,      \* the file system as the run found it
  trace     \* what the run has done so far that is visible from outside:
            \* progress lines printed and operations on files, in order

vars == <<args, fs, fs0, idx, pc, content, trace>>

Missing == [exists |-> FALSE, readable |-> FALSE, writable |-> FALSE, data |-> <<>>]

File(r, w, d) == [exists |-> TRUE, readable |-> r, writable |-> w, data |-> d]

filename == args[idx]

Event(op) == [op |-> op, arg |-> idx]

\* ------------------------------------------------------------ the driver

\* for filename in sys.argv[1:]: print(f"Fixing LOOP_CARRIED_DEP in {filename}...")
Progress ==
  /\ pc = "loop"
  /\ idx < Len(args)
  /\ idx' = idx + 1
  /\ trace' = Append(trace, [op |-> "print", arg |-> idx + 1])
  /\ pc' = "open_r"
  /\ UNCHANGED <<args, fs0, fs, content>>

\* the loop is exhausted: the script ends normally
Exit ==
  /\ pc = "loop"
  /\ idx = Len(args)
  /\ pc' = "exit"
  /\ UNCHANGED <<args, fs0, fs, idx, content, trace>>

\* the call wrapped in try/except: the loop goes on with the next argument
RaiseCaught ==
  /\ pc' = "loop"
  /\ UNCHANGED <<args, fs0, idx, content>>

\* an exception nothing catches: traceback, the process ends
Raise ==
  /\ pc' = "abort"
  /\ UNCHANGED <<args, fs0, idx, content>>

\* ------------------------------------------------------------ fix_loop_carried_dep

CanRead(f) == f.exists /\ f.readable

\* the file opened with mode 'w+' instead of 'r'
OpenReadTruncating ==
  /\ pc = "open_r"
  /\ fs' = [fs EXCEPT ![filename] = [exists |-> TRUE, readable |-> @.readable,
                                     writable |-> @.writable, data |-> <<>>]]
  /\ trace' = Append(trace, Event("open_r"))
  /\ pc' = "read"
  /\ UNCHANGED <<args, fs0, idx, content>>

\* open(filename, 'r') succeeds
OpenReadOk ==
  /\ pc = "open_r"
  /\ CanRead(fs[filename])
  /\ trace' = Append(trace, Event("open_r"))
  /\ pc' = "read"
  /\ UNCHANGED <<args, fs0, fs, idx, content>>

\* open(filename, 'r') raises FileNotFoundError or PermissionError
OpenReadFail ==
  /\ pc = "open_r"
  /\ ~CanRead(fs[filename])
  /\ Raise
  /\ UNCHANGED <<fs, trace>>

\* content = f.read()
Read ==
  /\ pc = "read"
  /\ content' = ReadText(fs[filename].data)
  /\ trace' = Append(trace, Event("read"))
  /\ pc' = "sub1"
  /\ UNCHANGED <<args, fs0, fs, idx>>

\* f.read() raises (an I/O error of the device)
ReadFail ==
  /\ pc = "read"
  /\ Raise
  /\ UNCHANGED <<fs, trace>>

SubPc == <<"sub1", "sub2", "sub3", "sub4", "sub5", "sub6", "sub7", "open_w">>

\* content = re.sub(<n-th expression>, <n-th template>, content)
SubStep(n) ==
  /\ pc = SubPc[n]
  /\ content' = re_sub(RuleOrder[n], content)
  /\ pc' = SubPc[n + 1]
  /\ UNCHANGED <<args, fs0, fs, idx, trace>>

Sub1 == SubStep(1)

Sub2 == SubStep(2)

Sub3 == SubStep(3)

Sub4 == SubStep(4)

Sub5 == SubStep(5)

Sub6 == SubStep(6)

Sub7 == SubStep(7)

\* the file opened with mode 'r+' instead of 'w': it keeps its content
KeepContent(f) == f

\* what open(filename, 'w') does to the file it opens: it is truncated
Truncate(f) == [f EXCEPT !.data = <<>>]

\* open(filename, 'w') succeeds
OpenWriteOk ==
  /\ pc = "open_w"
  /\ fs[filename].writable
  /\ fs' = [fs EXCEPT ![filename] = Truncate(@)]
  /\ trace' = Append(trace, Event("open_w"))
  /\ pc' = "write"
  /\ UNCHANGED <<args, fs0, idx, content>>

\* open(filename, 'w') raises PermissionError: the file is not touched
OpenWriteFail ==
  /\ pc = "open_w"
  /\ ~fs[filename].writable
  /\ Raise
  /\ UNCHANGED <<fs, trace>>

\* the first k characters of text written from the start of a file holding old
Overwrite(old, text, k) ==
  SubSeq(text, 1, k) \o SubSeq(old, k + 1, Len(old))

\* f.write(content) and the close of the with block succeed
WriteOk ==
  /\ pc = "write"
  /\ fs' = [fs EXCEPT ![filename].data =
              Overwrite(@, WriteText(content), Len(WriteText(content)))]
  /\ trace' = Append(trace, Event("write"))
  /\ content' = <<>>
  /\ pc' = "loop"
  /\ UNCHANGED <<args, fs0, idx>>

\* the write (or the flush at close) raises after k characters reached the file
WriteFail ==
  /\ pc = "write"
  /\ \E k \in 0..(Len(WriteText(content)) - 1) :
       fs' = [fs EXCEPT ![filename].data = Overwrite(@, WriteText(content), k)]
  /\ Raise
  /\ UNCHANGED trace

\* ------------------------------------------------------------ specifications

SubAny == Sub1 \/ Sub2 \/ Sub3 \/ Sub4 \/ Sub5 \/ Sub6 \/ Sub7

Start ==
  /\ fs0 = fs
  /\ idx = 0
  /\ pc = "loop"
  /\ content = <<>>
  /\ trace = <<>>

\* the driver on any argument list over two paths, each path missing or a
\* file with or without read and write permission
Init ==
  /\ args \in UNION {[1..n -> Paths] : n \in 0..MaxArgs}
  /\ fs \in [Paths -> {Missing} \cup
                      {File(r, w, d) : r \in BOOLEAN, w \in BOOLEAN, d \in DriverTexts}]
  /\ Start

Next ==
  \/ Progress
  \/ Exit
  \/ OpenReadOk
  \/ OpenReadFail
  \/ Read
  \/ ReadFail
  \/ SubAny
  \/ OpenWriteOk
  \/ OpenWriteFail
  \/ WriteOk
  \/ WriteFail

Spec == Init /\ [][Next]_vars

\* the Rewriter run twice on one readable and writable file (tool a.c a.c),
\* no failure of the environment, over all input texts
InitRewriter ==
  /\ args = <<"a.c", "a.c">>
  /\ \E d \in InputTexts : fs = [p \in Paths |-> IF p = "a.c" THEN File(TRUE, TRUE, d) ELSE Missing]
  /\ Start

NextRewriter ==
  \/ Progress
  \/ Exit
  \/ OpenReadOk
  \/ Read
  \/ SubAny
  \/ OpenWriteOk
  \/ WriteOk

SpecRewriter == InitRewriter /\ [][NextRewriter]_vars

\* ------------------------------------------------------------ vocabulary of the properties

\* positions where lit occurs in s, letter for letter
Occ(s, lit) == {i \in 1..Len(s) : Lit(s, i, lit, FALSE)}

Contains(s, lit) == Occ(s, lit) # {}

ContainsFold(s, lit) == \E i \in 1..Len(s) : Lit(s, i, lit, TRUE)

IsPrefix(a, b) == Len(a) <= Len(b) /\ SubSeq(b, 1, Len(a)) = a

\* the lines of a text (the text split at "\n")
RECURSIVE Lines(_)
Lines(s) ==
  LET e == LineEnd(s, 1)
  IN  IF e > Len(s) THEN <<s>>
      ELSE <<SubSeq(s, 1, e - 1)>> \o Lines(SubSeq(s, e + 1, Len(s)))

PatEqOld == W_pattern \o <<" ">> \o OP_EQEQ \o <<" ">> \o IDENT

PatEqNew == W_pattern \o <<" ">> \o OP_EQEQ \o <<" ">> \o PATTERN_IDENT

TypeAsgOld == W_type \o <<" ">> \o OP_EQ \o <<" ">> \o IDENT

TypeAsgNew == W_type \o <<" ">> \o OP_EQ \o <<" ">> \o ANTIPATTERN_IDENT

CaseOld == W_case \o <<" ">> \o IDENT

CaseNew == W_case \o <<" ">> \o PATTERN_IDENT

\* all seven substitutions of the current call are computed and nothing is
\* written yet: the file still holds what the call read
Computed == pc = "open_w"

FileText == fs[filename].data

TextRead == ReadText(FileText)

\* the occurrence of lit at i stands between word boundaries
Delimited(s, i, lit) == WordBoundary(s, i) /\ WordBoundary(s, i + Len(lit))

\* ------------------------------------------------------------ C1

\* C1: a second run of the Rewriter on the file writes what the file already
\* holds: when the second call has computed its text, that text is the
\* content the first call left.
C1_Idempotent ==
  (Computed /\ idx = 2) => WriteText(content) = FileText

\* ------------------------------------------------------------ C2

\* C2 as stated: whenever the text read contains "pattern == LOOP_CARRIED_DEP",
\* whatever stands directly before and after it, the text computed contains
\* "pattern == PATTERN_LOOP_CARRIED_DEP" and no "pattern == LOOP_CARRIED_DEP".
C2_AnyNeighbours ==
  (Computed /\ Contains(TextRead, PatEqOld))
    => Contains(content, PatEqNew) /\ ~Contains(content, PatEqOld)

PatEqDelimited(s) == {i \in Occ(s, PatEqOld) : Delimited(s, i, PatEqOld)}

\* C2 amended: every "pattern == LOOP_CARRIED_DEP" that stands between word
\* boundaries (no word character directly before pattern or directly after
\* the identifier) is rewritten to "pattern == PATTERN_LOOP_CARRIED_DEP" and
\* none of them is left; the occurrences with a word character on either
\* side stay as they are.
C2_DelimitedRewritten ==
  Computed =>
    /\ Cardinality(Occ(content, PatEqNew))
         = Cardinality(PatEqDelimited(TextRead)) + Cardinality(Occ(TextRead, PatEqNew))
    /\ PatEqDelimited(content) = {}
    /\ Cardinality(Occ(content, PatEqOld))
         = Cardinality(Occ(TextRead, PatEqOld)) - Cardinality(PatEqDelimited(TextRead))

\* a call whose text has a delimited occurrence beside one that is not
C2_Witness ==
  /\ Computed
  /\ PatEqDelimited(TextRead) # {}
  /\ Occ(TextRead, PatEqOld) # PatEqDelimited(TextRead)
  /\ Contains(content, PatEqNew)

\* ------------------------------------------------------------ C3

\* C3 as stated: whenever the text read contains "type = LOOP_CARRIED_DEP",
\* whatever word characters stand directly before type and after the
\* identifier, the text computed contains "type = ANTIPATTERN_LOOP_CARRIED_DEP".
C3_AnyNeighbours ==
  (Computed /\ Contains(TextRead, TypeAsgOld)) => Contains(content, TypeAsgNew)

\* occurrences of "type = LOOP_CARRIED_DEP" where type starts a word or ends
\* the word detected_type, and the identifier ends a word
TypeAsgDelimited(s) ==
  {i \in Occ(s, TypeAsgOld) :
     /\ WordBoundary(s, i + Len(TypeAsgOld))
     /\ \/ WordBoundary(s, i)
        \/ Lit(s, i + Len(W_type) - Len(W_detected_type), W_detected_type, FALSE)}

\* C3 amended: every "type = LOOP_CARRIED_DEP" whose type is not directly
\* preceded by a word character, or is the end of detected_type, and whose
\* identifier is not directly followed by a word character, is rewritten to
\* "type = ANTIPATTERN_LOOP_CARRIED_DEP"; the other occurrences stay.
C3_DelimitedRewritten ==
  Computed =>
    /\ Cardinality(Occ(content, TypeAsgNew))
         = Cardinality(TypeAsgDelimited(TextRead)) + Cardinality(Occ(TextRead, TypeAsgNew))
    /\ TypeAsgDelimited(content) = {}
    /\ Cardinality(Occ(content, TypeAsgOld))
         = Cardinality(Occ(TextRead, TypeAsgOld)) - Cardinality(TypeAsgDelimited(TextRead))

\* a call that rewrote the assignment to detected_type and left another
\* "type = LOOP_CARRIED_DEP" alone
C3_Witness ==
  /\ Computed
  /\ \E i \in TypeAsgDelimited(TextRead) : ~WordBoundary(TextRead, i)
  /\ Occ(content, TypeAsgOld) # {}
  /\ Contains(content, TypeAsgNew)

\* ------------------------------------------------------------ C4

\* the identifier at k directly follows word, whitespace, op, whitespace
AfterAssign(s, k, word, op) ==
  \E i \in 1..k :
    /\ Lit(s, i, word, FALSE)
    /\ Lit(s, SkipWs(s, i + Len(word)), op, FALSE)
    /\ SkipWs(s, SkipWs(s, i + Len(word)) + Len(op)) = k

\* the identifier at k directly follows the keyword case (in any letter
\* case) and ctx stands later on the line of its colon
AfterCase(s, k, ctx) ==
  LET c == SkipWs(s, k + Len(IDENT))
  IN  /\ \E i \in 1..k :
           /\ Lit(s, i, W_case, TRUE)
           /\ SkipWs(s, i + Len(W_case)) = k
           /\ k > i + Len(W_case)
      /\ c <= Len(s)
      /\ s[c] = ":"
      /\ \E p \in (c + 1)..(LineEnd(s, c + 1) - Len(ctx)) : Lit(s, p, ctx, FALSE)

\* some upper-case LOOP_CARRIED_DEP of s stands in a recognized context
Recognized(s) ==
  \E k \in Occ(s, IDENT) :
    \/ \E word \in {W_pattern, W_type, W_detected_type}, op \in {OP_EQEQ, OP_EQ} :
         AfterAssign(s, k, word, op)
    \/ \E ctx \in {W_access_pattern, W_antipattern} : AfterCase(s, k, ctx)

\* C4: when no upper-case LOOP_CARRIED_DEP of the file stands in a recognized
\* context, the call writes back, character for character, what the file held.
C4_Frame ==
  (Computed /\ ~Recognized(FileText)) => WriteText(content) = FileText

\* ------------------------------------------------------------ C7

\* the line starts with "case LOOP_CARRIED_DEP", optional whitespace, ":", and
\* has access_pattern after the colon
CaseAccessLine(l) ==
  LET c == SkipWs(l, Len(CaseOld) + 1)
  IN  /\ IsPrefix(CaseOld, l)
      /\ c <= Len(l)
      /\ l[c] = ":"
      /\ Contains(SubSeq(l, c + 1, Len(l)), W_access_pattern)

\* C7: the substitutions keep the lines apart, and every line of the text
\* read that starts with "case LOOP_CARRIED_DEP", optional whitespace, ":" and
\* has access_pattern later starts with "case PATTERN_LOOP_CARRIED_DEP" in the
\* text computed, also when antipattern stands on the line.
C7_CaseAccessPattern ==
  Computed =>
    /\ Len(Lines(content)) = Len(Lines(TextRead))
    /\ \A n \in 1..Len(Lines(TextRead)) :
         CaseAccessLine(Lines(TextRead)[n]) => IsPrefix(CaseNew, Lines(content)[n])

\* such a line with antipattern on it as well, rewritten
C7_Witness ==
  /\ Computed
  /\ \E n \in 1..Len(Lines(TextRead)) :
       /\ CaseAccessLine(Lines(TextRead)[n])
       /\ Contains(Lines(TextRead)[n], W_antipattern)
       /\ IsPrefix(CaseNew, Lines(content)[n])

\* ------------------------------------------------------------ C8

\* s has a match of a case rule in which only the keyword case is compared
\* without regard to letter case
CaseSensitiveMatch(s, ctx) == \E k \in Occ(s, IDENT) : AfterCase(s, k, ctx)

\* C8: a case rule (the third and the sixth substitution) changes nothing
\* when the text has no match with the identifier in upper case and the
\* context word in lower case.
C8_OnlyKeywordFolded ==
  [][/\ (pc = "sub3" /\ ~CaseSensitiveMatch(content, W_access_pattern)) => content' = content
     /\ (pc = "sub6" /\ ~CaseSensitiveMatch(content, W_antipattern)) => content' = content]_vars

\* ------------------------------------------------------------ C9

\* C9: when the text read does not contain antipattern in any letter case,
\* the sixth substitution changes nothing.
C9_InsertedTextIsNoContext ==
  [][(pc = "sub6" /\ ~ContainsFold(TextRead, W_antipattern)) => content' = content]_vars

\* ------------------------------------------------------------ vocabulary of the driver properties

HasEvent(op, k) == \E n \in 1..Len(trace) : trace[n] = [op |-> op, arg |-> k]

\* what a complete call for the k-th argument shows, in order
CallEvents(k) ==
  <<[op |-> "print", arg |-> k], [op |-> "open_r", arg |-> k], [op |-> "read", arg |-> k],
    [op |-> "open_w", arg |-> k], [op |-> "write", arg |-> k]>>

RECURSIVE Expected(_)
Expected(n) == IF n = 0 THEN <<>> ELSE Expected(n - 1) \o CallEvents(n)

\* how often path p stands among the first n arguments
Times(p, n) == Cardinality({k \in 1..n : args[k] = p})

RECURSIVE Rerun(_, _)
Rerun(d, m) == IF m = 0 THEN d ELSE fix_result(Rerun(d, m - 1))

\* the content m complete calls leave of each file content of the driver runs
RerunTable == [d \in DriverTexts |-> [m \in 0..MaxArgs |-> Rerun(d, m)]]

\* the file system after complete calls for the first n arguments
FsAfter(n) == [p \in Paths |-> [fs0[p] EXCEPT !.data = RerunTable[@][Times(p, n)]]]

\* what the file of the current call held when the call began, and what the
\* call writes when it completes
Before == RerunTable[fs0[filename].data][Times(filename, idx - 1)]

After == RerunTable[fs0[filename].data][Times(filename, idx)]

Terminated == pc \in {"abort", "exit"}

\* ------------------------------------------------------------ C5

\* the parts of C5 that do not speak of the earlier files' content: progress
\* lines and file operations happen in argument order, each call complete
\* before the next progress line; a failure ends the run with nothing printed
\* or done for a later argument; without arguments nothing is printed or
\* touched; a terminated run takes no further step
C5_Order ==
  /\ IsPrefix(trace, Expected(Len(args)))
  /\ \A n \in 1..Len(trace) : trace[n].arg <= idx
  /\ pc = "abort" => idx >= 1 /\ ~HasEvent("write", idx)
  /\ pc = "exit" => trace = Expected(Len(args))
  /\ args = <<>> => pc \in {"loop", "exit"} /\ trace = <<>> /\ fs = fs0
  /\ Terminated => ~ENABLED Next

\* C5 as stated: the above, and after a failure at the i-th argument every
\* earlier argument's file holds its rewritten content.
C5_AllEarlierKept ==
  /\ C5_Order
  /\ pc = "abort" => \A j \in 1..(idx - 1) : fs[args[j]] = FsAfter(idx - 1)[args[j]]

\* C5 amended: the above, and after a failure at the i-th argument every
\* earlier argument that names another file than the i-th holds its
\* rewritten content (the file of the failed call itself may be truncated
\* although an earlier argument named it).
C5_OtherEarlierKept ==
  /\ C5_Order
  /\ pc = "abort" =>
       \A j \in 1..(idx - 1) :
         args[j] # filename => fs[args[j]] = FsAfter(idx - 1)[args[j]]

\* the second call failed after the first rewrote another file, whose new
\* content is still there
C5_Witness ==
  /\ pc = "abort"
  /\ idx = 2
  /\ args[1] # args[2]
  /\ fs[args[1]].data # fs0[args[1]].data
  /\ fs[args[1]].data = fix_result(fs0[args[1]].data)

\* ------------------------------------------------------------ C6

\* C6: as long as the current call has not opened its file for writing, every
\* path is as the call found it (a missing path is still missing, a file
\* that cannot be read holds what it held), also when the call has failed;
\* and the file is opened for writing only after it was read, with content
\* holding the result of all seven substitutions on the text read.
C6_ReadFailureChangesNothing ==
  idx >= 1 =>
    /\ ~HasEvent("open_w", idx) => fs = FsAfter(idx - 1)
    /\ HasEvent("open_w", idx) => HasEvent("read", idx)
    /\ pc = "write" => content = Substitute(ReadText(Before))

\* a call on a missing path has failed and the path is still missing, after
\* an earlier call rewrote its file
C6_Witness ==
  /\ pc = "abort"
  /\ idx = 2
  /\ ~HasEvent("open_r", idx)
  /\ ~fs0[filename].exists
  /\ ~fs[filename].exists
  /\ fs[args[1]].data # fs0[args[1]].data

\* ------------------------------------------------------------ C10

\* C10: during a call its file holds the text the call found, or a prefix of
\* the fully rewritten text, or the fully rewritten text; from the write-open
\* until the write completes it holds a prefix of the rewritten text, and no
\* other path has changed or come into existence (there is no backup).
C10_OriginalOrPrefix ==
  idx >= 1 =>
    /\ FileText = Before \/ IsPrefix(FileText, After)
    /\ HasEvent("open_w", idx) => IsPrefix(FileText, After)
    /\ \A p \in Paths : p # filename => fs[p] = FsAfter(idx - 1)[p]

\* a write failed part-way: the file holds a proper, non-empty prefix of the
\* rewritten text that differs from what the call found
C10_Witness ==
  /\ pc = "abort"
  /\ HasEvent("open_w", idx)
  /\ FileText # <<>>
  /\ FileText # After
  /\ FileText # Before
  /\ ~IsPrefix(FileText, Before)

====
